---- MODULE Spec2Model ----
(***************************************************************************)
(* Frame synthesis of magic_squares/line_bundle.py: the coloured-link      *)
(* graph (_LineBundle, LineBundle), the rule sets of BundledMagicSquare    *)
(* and the commit of the frame into the enlarged square.                   *)
(*                                                                         *)
(* Spec models the construction BundledMagicSquare(picture, algorithm,     *)
(* randomize) followed by check(), and the chaining of the self-test.      *)
(* SpecBundle models arbitrary calls of the link operations on the bundle  *)
(* of a square, followed by a call of its framing().                       *)
(***************************************************************************)
EXTENDS Integers, Sequences, FiniteSets, TLC

\* Largest order of a picture that is framed.
MaxOrder == 10
\* SpecBundle: the labels 1..MaxArg and the complements of 1..MaxArg+1 are
\* used as arguments of the link operations (besides the invalid label 0).
MaxArg == 2
\* SpecBundle: the number of calls made on the bundle of a constructed square.
MaxCalls == 2
\* SpecPermute: the number of permutations applied to a constructed square.
MaxPermutations == 1
\* SpecAntaki: the number of times a framed square is framed again.
MaxFrames == 4
\* the largest downward translation of a picture of FramedMagicSquare
MaxShift == 5

VARIABLES
    pc,         \* position of the construction / of the caller
    source,     \* self.source: the picture, [n, matrix]
    algorithm,  \* self.algorithm
    randomize,  \* self.randomize
    n,          \* self.n, the order of the enlarged square
    matrix,     \* self.matrix, keyed by <<row, column>>
    magic,      \* self._magic
    green,      \* self.bundle.green
    purple,     \* self.bundle.purple
    status,     \* status returned by bundle.framing
    frame,      \* (top, right, bottom, left) returned by bundle.framing
    corners,    \* corners returned by bundle.framing
    err,        \* exception raised by the last operation, or "none"
    rng,        \* number of calls of random() / shuffle() made so far
    call,       \* the last operation called on the bundle by the owner
    calls,      \* the number of such calls made so far
    before      \* history: the two maps when the last such call was made

vars == <<pc, source, algorithm, randomize, n, matrix, magic, green, purple,
          status, frame, corners, err, rng, call, calls, before>>

bundleVars == <<green, purple>>
squareVars == <<source, algorithm, randomize, n, matrix>>
framingVars == <<status, frame, corners>>
callVars == <<call, calls, before>>

----------------------------------------------------------------------------
(* Python helpers *)

Min(a, b) == IF a < b THEN a ELSE b

\* list(range(a, b, 2))
Range2(a, b) ==
    LET len == IF b > a THEN (b - a + 1) \div 2 ELSE 0
    IN  [i \in 1..len |-> a + 2 * (i - 1)]

\* foo[:k] and foo[k:]
Take(foo, k) == SubSeq(foo, 1, Min(k, Len(foo)))
Drop(foo, k) == SubSeq(foo, Min(k, Len(foo)) + 1, Len(foo))

\* the outcomes of shuffle(foo): foo[p[1]], foo[p[2]], ...
ShuffleOutcomes(len) ==
    {p \in [1..len -> 1..len] : \A i, j \in 1..len : p[i] = p[j] => i = j}

\* dict operations
Put(f, k, v) == [x \in DOMAIN f \cup {k} |-> IF x = k THEN v ELSE f[x]]
Del(f, k) == [x \in DOMAIN f \ {k} |-> f[x]]
EmptyMap == [x \in {} |-> 0]

----------------------------------------------------------------------------
(* MagicSquare *)

Cells(order) == (0..order-1) \X (0..order-1)

RECURSIVE SumTo(_, _)
SumTo(f, k) == IF k = 0 THEN 0 ELSE f[k-1] + SumTo(f, k-1)

row_sum(m, order, i) == SumTo([j \in 0..order-1 |-> m[<<i, j>>]], order)
column_sum(m, order, j) == SumTo([i \in 0..order-1 |-> m[<<i, j>>]], order)
main_diagonal_sum(m, order) ==
    SumTo([i \in 0..order-1 |-> m[<<i, i>>]], order)
back_diagonal_sum(m, order) ==
    SumTo([i \in 0..order-1 |-> m[<<i, order-i-1>>]], order)

\* check(): TRUE when no Warning is raised (diagonals=True)
check(m, order) ==
    LET mg == row_sum(m, order, 0)
    IN  /\ \A j \in 1..order-1 : row_sum(m, order, j) = mg
        /\ \A i \in 0..order-1 : column_sum(m, order, i) = mg
        /\ main_diagonal_sum(m, order) = mg
        /\ back_diagonal_sum(m, order) = mg

\* MagicSquare.from_sq of a tuple of rows
from_sq(rows) ==
    [n |-> Len(rows),
     matrix |-> [p \in Cells(Len(rows)) |-> rows[p[1]+1][p[2]+1]]]

Melencolia1514 ==
    from_sq(<< <<16, 3, 2, 13>>, <<5, 10, 11, 8>>,
               <<9, 6, 7, 12>>, <<4, 15, 14, 1>> >>)

\* SiameseMagicSquare(1) and SiameseMagicSquare(3)
Siamese1 == from_sq(<< <<1>> >>)
Siamese3 == from_sq(<< <<4, 9, 2>>, <<3, 5, 7>>, <<8, 1, 6>> >>)

\* MagicSquare(0) and a (trivial) magic square of order 2
Order0 == from_sq(<< >>)
Order2 == from_sq(<< <<1, 1>>, <<1, 1>> >>)

\* a magic square of order 3 whose magic constant, 3, is not 3(3^2+1)/2
Ones3 == from_sq(<< <<1, 1, 1>>, <<1, 1, 1>>, <<1, 1, 1>> >>)

\* Python's None, where an integer is expected
None == -1

----------------------------------------------------------------------------
(* _LineBundle and LineBundle; k is the order of the picture (bundle.n) *)

sigma(k) == (k + 2) * (k + 2) + 1

\* faulty variant: order 2 is not refused
validate_positive(k) == ~(k < 1)
validate(k) == ~(k < 1 \/ k = 2)

complement(k, node) == sigma(k) - node

is_source_node(k, node) == node > 0 /\ node < 2 * k + 3

is_target_node(k, node) == is_source_node(k, complement(k, node))

is_node(k, node) == is_source_node(k, node) \/ is_target_node(k, node)

is_top_node(k, g, node) == complement(k, node) \in DOMAIN g
is_bottom_node(g, node) == node \in DOMAIN g
\* faulty variant: the node itself is looked up
is_left_node_plain(k, p, node) == node \in DOMAIN p
is_left_node(k, p, node) == complement(k, node) \in DOMAIN p
is_right_node(p, node) == node \in DOMAIN p

\* faulty variant: the entry of the partner is kept
unlink_green_half(g, node) == Del(g, node)

\* unlink_green: KeyError when the node holds no entry
unlink_green_ok(g, node) == node \in DOMAIN g
unlink_green(g, node) ==
    LET partner == g[node]
        g1 == Del(g, node)
    IN  IF partner \in DOMAIN g1 THEN Del(g1, partner) ELSE g1

unlink_purple_ok(p, node) == node \in DOMAIN p
unlink_purple(p, node) ==
    LET partner == p[node]
        p1 == Del(p, node)
    IN  IF partner \in DOMAIN p1 THEN Del(p1, partner) ELSE p1

\* faulty variant: a link of slope zero is accepted
link_green_ok_any_slope(k, src, target) ==
    /\ is_source_node(k, src)
    /\ is_target_node(k, target)

\* link_green: ValueError unless link_green_ok
link_green_ok(k, src, target) ==
    /\ is_source_node(k, src)
    /\ is_target_node(k, target)
    /\ src # complement(k, target)
link_green(g, src, target) ==
    LET g1 == IF src \in DOMAIN g THEN unlink_green(g, src) ELSE g
        g2 == IF target \in DOMAIN g1 THEN unlink_green(g1, target) ELSE g1
    IN  Put(Put(g2, src, target), target, src)

link_purple_ok(k, src, target) ==
    /\ is_source_node(k, src)
    /\ is_target_node(k, target)
    /\ src # complement(k, target)
link_purple(p, src, target) ==
    LET p1 == IF src \in DOMAIN p THEN unlink_purple(p, src) ELSE p
        p2 == IF target \in DOMAIN p1 THEN unlink_purple(p1, target) ELSE p1
    IN  Put(Put(p2, src, target), target, src)

\* clink_green: ValueError unless is_node(src)
clink_green(k, g, src) ==
    LET target == complement(k, src)
        g1 == IF src \in DOMAIN g THEN unlink_green(g, src) ELSE g
        g2 == IF target \in DOMAIN g1 THEN unlink_green(g1, target) ELSE g1
    IN  Put(g2, src, target)

\* faulty variant: the entry is stored at the complement
clink_purple_mirrored(k, p, src) ==
    LET target == complement(k, src)
        p1 == IF src \in DOMAIN p THEN unlink_purple(p, src) ELSE p
        p2 == IF target \in DOMAIN p1 THEN unlink_purple(p1, target) ELSE p1
    IN  Put(p2, target, src)

clink_purple(k, p, src) ==
    LET target == complement(k, src)
        p1 == IF src \in DOMAIN p THEN unlink_purple(p, src) ELSE p
        p2 == IF target \in DOMAIN p1 THEN unlink_purple(p1, target) ELSE p1
    IN  Put(p2, src, target)

\* _LineBundle.framing: the class of one node of 1..2k+2
node_class(k, g, p, node) ==
    IF is_top_node(k, g, node)
    THEN IF is_left_node(k, p, node) THEN "top_left"
         ELSE IF is_right_node(p, node) THEN "top_right"
         ELSE "top"
    ELSE IF is_bottom_node(g, node)
    THEN IF is_left_node(k, p, node) THEN "bottom_left"
         ELSE IF is_right_node(p, node) THEN "bottom_right"
         ELSE "bottom"
    ELSE IF is_left_node(k, p, node) THEN "left"
    ELSE IF is_right_node(p, node) THEN "right"
    ELSE "unknown"

\* the list built by the appends of the loop over range(1, 2k+3): a node of
\* class own appends itself, a node of class opp appends its partner
RECURSIVE appended(_, _, _, _, _, _)
appended(k, g, p, own, opp, node) ==
    IF node > 2 * k + 2 THEN << >>
    ELSE LET c == node_class(k, g, p, node)
             item == IF c = own THEN <<node>>
                     ELSE IF c = opp THEN <<complement(k, node)>>
                     ELSE << >>
         IN  item \o appended(k, g, p, own, opp, node + 1)

framing_corners(k, g, p) ==
    [c \in 0..3 |->
        CASE c = 0 -> appended(k, g, p, "top_left", "bottom_right", 1)
          [] c = 1 -> appended(k, g, p, "top_right", "bottom_left", 1)
          [] c = 2 -> appended(k, g, p, "bottom_right", "top_left", 1)
          [] c = 3 -> appended(k, g, p, "bottom_left", "top_right", 1)]

\* faulty variant: the top list and the bottom list are exchanged
framing_frame_exchanged(k, g, p) ==
    [top    |-> appended(k, g, p, "bottom", "top", 1),
     right  |-> appended(k, g, p, "right", "left", 1),
     bottom |-> appended(k, g, p, "top", "bottom", 1),
     left   |-> appended(k, g, p, "left", "right", 1)]

framing_frame(k, g, p) ==
    [top    |-> appended(k, g, p, "top", "bottom", 1),
     right  |-> appended(k, g, p, "right", "left", 1),
     bottom |-> appended(k, g, p, "bottom", "top", 1),
     left   |-> appended(k, g, p, "left", "right", 1)]

\* faulty variant: a corner is flagged only when it has no candidate
framing_status_empty(k, g, p) ==
    LET cs == framing_corners(k, g, p)
        bit(c) == IF Len(cs[c]) = 0 THEN 2^c ELSE 0
        unknown == appended(k, g, p, "unknown", "none", 1)
    IN  bit(0) + bit(1) + bit(2) + bit(3)
          + (IF Len(unknown) # 0 THEN 16 ELSE 0)

framing_status(k, g, p) ==
    LET cs == framing_corners(k, g, p)
        bit(c) == IF Len(cs[c]) # 1 THEN 2^c ELSE 0
        unknown == appended(k, g, p, "unknown", "none", 1)
    IN  bit(0) + bit(1) + bit(2) + bit(3)
          + (IF Len(unknown) # 0 THEN 16 ELSE 0)

----------------------------------------------------------------------------
(* BundledMagicSquare: the random source and the rule sets.  A rule set is  *)
(* the sequence of the calls it makes on the bundle, in program order.      *)

\* faulty variant: heads whatever the outcome of random()
my_random_heads(rnd, coin) == 1

\* coin is the outcome of "1 if random() < 0.5 else 0"
my_random(rnd, coin) == IF rnd THEN coin ELSE 1

\* faulty variant: the list is shuffled whatever randomize is
my_shuffle_always(rnd, foo, perm) == [i \in 1..Len(foo) |-> foo[perm[i]]]

\* perm is the outcome of shuffle(foo)
my_shuffle(rnd, foo, perm) ==
    IF rnd THEN [i \in 1..Len(foo) |-> foo[perm[i]]] ELSE foo

Op(name, a, b) == [op |-> name, a |-> a, b |-> b]
NoCall == Op("none", 0, 0)

\* one call on the bundle b = [green, purple, err]
exec(k, b, c) ==
    CASE c.op = "link_green" ->
            IF link_green_ok(k, c.a, c.b)
            THEN [b EXCEPT !.green = link_green(b.green, c.a, c.b)]
            ELSE [b EXCEPT !.err = "ValueError"]
      [] c.op = "link_purple" ->
            IF link_purple_ok(k, c.a, c.b)
            THEN [b EXCEPT !.purple = link_purple(b.purple, c.a, c.b)]
            ELSE [b EXCEPT !.err = "ValueError"]
      [] c.op = "clink_green" ->
            IF is_node(k, c.a)
            THEN [b EXCEPT !.green = clink_green(k, b.green, c.a)]
            ELSE [b EXCEPT !.err = "ValueError"]
      [] c.op = "clink_purple" ->
            IF is_node(k, c.a)
            THEN [b EXCEPT !.purple = clink_purple(k, b.purple, c.a)]
            ELSE [b EXCEPT !.err = "ValueError"]
      [] c.op = "unlink_green" ->
            IF unlink_green_ok(b.green, c.a)
            THEN [b EXCEPT !.green = unlink_green(b.green, c.a)]
            ELSE [b EXCEPT !.err = "KeyError"]
      [] c.op = "unlink_purple" ->
            IF unlink_purple_ok(b.purple, c.a)
            THEN [b EXCEPT !.purple = unlink_purple(b.purple, c.a)]
            ELSE [b EXCEPT !.err = "KeyError"]

\* faulty variant: no call of the rule set reaches the bundle
run_no_call(k, b, ops) == b

\* the calls of a rule set, up to the first one that raises
RECURSIVE run(_, _, _)
run(k, b, ops) ==
    IF ops = << >> \/ b.err # "none" THEN b
    ELSE run(k, exec(k, b, Head(ops)), Tail(ops))

\* faulty variant: every link of the loop descends
ascents_descending(k, name, nodes) ==
    [i \in 1..Len(nodes) |-> Op(name, nodes[i], complement(k, nodes[i] + 1))]

\* for node in nodes: link(node+1, complement(node))
ascents(k, name, nodes) ==
    [i \in 1..Len(nodes) |-> Op(name, nodes[i] + 1, complement(k, nodes[i]))]
\* for node in nodes: link(node, complement(node+1))
descents(k, name, nodes) ==
    [i \in 1..Len(nodes) |-> Op(name, nodes[i], complement(k, nodes[i] + 1))]

\* faulty variant: the last link displaces the purple link of node 7
frame0_4_displaced(k) ==
    << Op("link_purple", 2, 36), Op("link_purple", 7, 31),
       Op("link_green", 6, 36),
       Op("link_green", 3, 33), Op("link_green", 5, 28),
       Op("link_purple", 7, 27) >>

frame0_4(k) ==
    << Op("link_purple", 2, 36), Op("link_purple", 7, 31),
       Op("link_green", 6, 36),
       Op("link_green", 3, 33), Op("link_green", 5, 28),
       Op("link_purple", 8, 27) >>

\* faulty variant: the first green link joins n+1 to the complement of n+2
frame0_oddly_even_exchanged(k, foo1, foo2) ==
    << Op("link_green", k+1, complement(k, k+2)),
       Op("link_purple", k+3, complement(k, k+1)),
       Op("link_purple", k+4, complement(k, k+2)) >>
    \o ascents(k, "link_green", Take(foo1, k \div 4))
    \o descents(k, "link_green", Drop(foo1, k \div 4))
    \o << Op("link_purple", k+5, complement(k, k+7)),
          Op("link_purple", k+6, complement(k, k+8)) >>
    \o ascents(k, "link_purple", Take(foo2, (k-6) \div 4))
    \o descents(k, "link_purple", Drop(foo2, (k-6) \div 4))

\* foo1, foo2: the two lists after my_shuffle
frame0_oddly_even(k, foo1, foo2) ==
    << Op("link_green", k+2, complement(k, k+1)),
       Op("link_purple", k+3, complement(k, k+1)),
       Op("link_purple", k+4, complement(k, k+2)) >>
    \o ascents(k, "link_green", Take(foo1, k \div 4))
    \o descents(k, "link_green", Drop(foo1, k \div 4))
    \o << Op("link_purple", k+5, complement(k, k+7)),
          Op("link_purple", k+6, complement(k, k+8)) >>
    \o ascents(k, "link_purple", Take(foo2, (k-6) \div 4))
    \o descents(k, "link_purple", Drop(foo2, (k-6) \div 4))

\* faulty variant: two ascents compensate for the link of slope -4
frame0_evenly_even_two_ascents(k, foo1, foo2) ==
    LET rest == Drop(foo1, 2)
    IN  << Op("link_green", k+2, complement(k, k+1)),
           Op("link_purple", k, complement(k, k+1)),
           Op("link_purple", k+4, complement(k, k+2)),
           Op("link_green", k-1, complement(k, k+3)) >>
        \o ascents(k, "link_green", Take(foo1, 2))
        \o ascents(k, "link_green", Take(rest, Len(rest) \div 2))
        \o descents(k, "link_green", Drop(rest, Len(rest) \div 2))
        \o ascents(k, "link_purple", Drop(foo2, k \div 4))
        \o descents(k, "link_purple", Take(foo2, k \div 4))

frame0_evenly_even(k, foo1, foo2) ==
    LET rest == Drop(foo1, 3)
    IN  << Op("link_green", k+2, complement(k, k+1)),
           Op("link_purple", k, complement(k, k+1)),
           Op("link_purple", k+4, complement(k, k+2)),
           Op("link_green", k-1, complement(k, k+3)) >>
        \o ascents(k, "link_green", Take(foo1, 3))
        \o ascents(k, "link_green", Take(rest, Len(rest) \div 2))
        \o descents(k, "link_green", Drop(rest, Len(rest) \div 2))
        \o ascents(k, "link_purple", Drop(foo2, k \div 4))
        \o descents(k, "link_purple", Take(foo2, k \div 4))

\* heads: the value of my_random()
frame0_odd(k, heads) ==
    LET links == (k - 1) \div 2
        pair(i) ==    \* the i-th pass of the loop, node = 2i-1 on entry
            LET node == 2 * i - 1
            IN  IF heads # 0
                THEN << Op("link_green", node+k+3, complement(k, node)),
                        Op("link_purple", node+1,
                           complement(k, node+1+k+3)) >>
                ELSE << Op("link_purple", node, complement(k, node+k+3)),
                        Op("link_green", node+1+k+3,
                           complement(k, node+1)) >>
    IN  << Op("clink_green", k+2, 0),
           Op("clink_purple", k, 0),
           Op("link_green", k+3, complement(k, k+1)),
           Op("clink_purple", complement(k, k+1), 0),
           Op("clink_purple", complement(k, k+3), 0) >>
        \o [j \in 1..2*links |-> pair((j + 1) \div 2)[2 - (j % 2)]]

----------------------------------------------------------------------------
(* BundledMagicSquare: configuration and commit of the frame *)

DISPATCH_TABLE == {0}

\* faulty variant: the picture is centred without the shift
configure_unshifted(src) ==
    LET k == src.n
    IN  [p \in Cells(k + 2) |->
            IF p[1] \in 1..k /\ p[2] \in 1..k
            THEN src.matrix[<<p[1]-1, p[2]-1>>]
            ELSE 0]

\* faulty variant: configure_frame leaves a 1 in every border cell
configure_ones(src) ==
    LET k == src.n
        h == 2 * k + 2
    IN  [p \in Cells(k + 2) |->
            IF p[1] \in 1..k /\ p[2] \in 1..k
            THEN src.matrix[<<p[1]-1, p[2]-1>>] + h
            ELSE 1]

\* configure up to configure_frame: the picture, shifted by h, is centred
\* and every border cell is set to 0 (the float('inf') of initialize is
\* overwritten in every cell)
configure(src) ==
    LET k == src.n
        h == 2 * k + 2
    IN  [p \in Cells(k + 2) |->
            IF p[1] \in 1..k /\ p[2] \in 1..k
            THEN src.matrix[<<p[1]-1, p[2]-1>>] + h
            ELSE 0]

\* faulty variant: the corners of the bottom tier are exchanged
framing_tiers_mirrored(fr, cs) ==
    [top    |-> cs[0] \o fr.top \o cs[1],
     right  |-> cs[1] \o fr.right \o cs[2],
     bottom |-> cs[2] \o fr.bottom \o cs[3],
     left   |-> cs[0] \o fr.left \o cs[3]]

\* faulty variant: the left tier ends in the corners of the right tier
framing_tiers_high_left(fr, cs) ==
    [top    |-> cs[0] \o fr.top \o cs[1],
     right  |-> cs[1] \o fr.right \o cs[2],
     bottom |-> cs[3] \o fr.bottom \o cs[2],
     left   |-> cs[1] \o fr.left \o cs[2]]

\* faulty variant: the right tier runs from the bottom corner to the top one
framing_tiers_turned(fr, cs) ==
    [top    |-> cs[0] \o fr.top \o cs[1],
     right  |-> cs[2] \o fr.right \o cs[1],
     bottom |-> cs[3] \o fr.bottom \o cs[2],
     left   |-> cs[0] \o fr.left \o cs[3]]

\* top, right, bottom, left with their corners
framing_tiers(fr, cs) ==
    [top    |-> cs[0] \o fr.top \o cs[1],
     right  |-> cs[1] \o fr.right \o cs[2],
     bottom |-> cs[3] \o fr.bottom \o cs[2],
     left   |-> cs[0] \o fr.left \o cs[3]]

\* the loop "for i in range(self.n)" of framing, from pass i on: the four
\* writes of a pass in program order; a list that is too short raises
RECURSIVE write_tiers(_, _, _, _)
write_tiers(m, order, t, i) ==
    IF i = order THEN [matrix |-> m, err |-> "none"]
    ELSE IF i >= Len(t.top) THEN [matrix |-> m, err |-> "IndexError"]
    ELSE LET m1 == [m EXCEPT ![<<0, i>>] = t.top[i+1]]
    IN  IF i >= Len(t.right) THEN [matrix |-> m1, err |-> "IndexError"]
    ELSE LET m2 == [m1 EXCEPT ![<<i, order-1>>] = t.right[i+1]]
    IN  IF i >= Len(t.bottom) THEN [matrix |-> m2, err |-> "IndexError"]
    ELSE LET m3 == [m2 EXCEPT ![<<order-1, i>>] = t.bottom[i+1]]
    IN  IF i >= Len(t.left) THEN [matrix |-> m3, err |-> "IndexError"]
    ELSE write_tiers([m3 EXCEPT ![<<i, 0>>] = t.left[i+1]], order, t, i+1)

----------------------------------------------------------------------------
(* State machine *)

NoFrame == [top |-> << >>, right |-> << >>, bottom |-> << >>, left |-> << >>]
NoCorners == [c \in 0..3 |-> << >>]
NoMaps == [green |-> EmptyMap, purple |-> EmptyMap]

BasePictures ==
    {Order0, Siamese1, Order2, Siamese3, Ones3, Melencolia1514}
Algorithms == {0, 1}

Start(pic) ==
    /\ pc = "idle"
    /\ source = pic
    /\ algorithm = 0
    /\ randomize = FALSE
    /\ n = 0
    /\ matrix = EmptyMap
    /\ magic = None
    /\ green = EmptyMap
    /\ purple = EmptyMap
    /\ status = None
    /\ frame = NoFrame
    /\ corners = NoCorners
    /\ err = "none"
    /\ rng = 0
    /\ call = NoCall
    /\ calls = 0
    /\ before = NoMaps

Init == \E pic \in BasePictures : Start(pic)

\* BundledMagicSquare.__init__ up to the dispatch in configure
Construct(alg, rnd) ==
    /\ pc = "idle"
    /\ algorithm' = alg
    /\ randomize' = rnd
    /\ UNCHANGED <<source, framingVars, rng, callVars>>
    /\ IF ~validate(source.n)
       THEN \* LineBundle(picture.n) raises
            /\ pc' = "error"
            /\ err' = "ValueError"
            /\ UNCHANGED <<n, matrix, magic, bundleVars>>
       ELSE IF ~check(source.matrix, source.n)
       THEN \* MagicSquare.from_sq(picture) raises
            /\ pc' = "error"
            /\ err' = "Warning"
            /\ UNCHANGED <<n, matrix, magic, bundleVars>>
       ELSE /\ n' = source.n + 2
            /\ matrix' = configure(source)
            /\ green' = EmptyMap
            /\ purple' = EmptyMap
            /\ err' = "none"
            /\ IF alg \in DISPATCH_TABLE
               THEN pc' = "configured" /\ magic' = None
               ELSE pc' = "plain" /\ magic' = row_sum(matrix', n', 0)

\* the calls of a rule set applied to the bundle; drawn is the number of
\* calls of the random source the rule set makes when randomize is set
Linking(ops, drawn) ==
    LET b == run(source.n, [green |-> green, purple |-> purple,
                            err |-> "none"], ops)
    IN  /\ green' = b.green
        /\ purple' = b.purple
        /\ err' = b.err
        /\ pc' = IF b.err = "none" THEN "linked" ELSE "error"
        /\ rng' = IF randomize THEN rng + drawn ELSE rng
        /\ UNCHANGED <<squareVars, magic, framingVars, callVars>>

\* default_configure: n odd
Frame0Odd ==
    /\ pc = "configured"
    /\ source.n % 2 = 1 /\ source.n > 0
    /\ \E coin \in {0, 1} :
          Linking(frame0_odd(source.n, my_random(randomize, coin)), 1)

\* default_configure: n = 4
Frame04 ==
    /\ pc = "configured"
    /\ ~(source.n % 2 = 1 /\ source.n > 0) /\ ~(source.n <= 2)
    /\ source.n = 4
    /\ Linking(frame0_4(source.n), 0)

\* default_configure: n divisible by 4
Frame0EvenlyEven ==
    /\ pc = "configured"
    /\ ~(source.n % 2 = 1 /\ source.n > 0) /\ ~(source.n <= 2)
    /\ source.n # 4 /\ source.n % 4 = 0
    /\ LET k == source.n
           foo1 == Range2(1, k - 2)
           foo2 == Range2(k + 5, 2 * k + 2)
       IN  \E p1 \in ShuffleOutcomes(Len(foo1)),
              p2 \in ShuffleOutcomes(Len(foo2)) :
              Linking(frame0_evenly_even(k, my_shuffle(randomize, foo1, p1),
                                         my_shuffle(randomize, foo2, p2)), 2)

\* default_configure: n congruent to 2 modulo 4
Frame0OddlyEven ==
    /\ pc = "configured"
    /\ ~(source.n % 2 = 1 /\ source.n > 0) /\ ~(source.n <= 2)
    /\ source.n # 4 /\ source.n % 4 # 0
    /\ LET k == source.n
           foo1 == Range2(1, k)
           foo2 == Range2(k + 9, 2 * k + 2)
       IN  \E p1 \in ShuffleOutcomes(Len(foo1)),
              p2 \in ShuffleOutcomes(Len(foo2)) :
              Linking(frame0_oddly_even(k, my_shuffle(randomize, foo1, p1),
                                        my_shuffle(randomize, foo2, p2)), 2)

\* status, frame, corners = bundle.framing
Classified ==
    /\ status' = framing_status(source.n, green, purple)
    /\ frame' = framing_frame(source.n, green, purple)
    /\ corners' = framing_corners(source.n, green, purple)
    /\ pc' = "classified"
    /\ UNCHANGED <<squareVars, magic, bundleVars, err, rng>>

\* framing() called by default_configure when the rule set has returned
Classify ==
    /\ pc = "linked"
    /\ Classified
    /\ UNCHANGED callVars

\* framing() called on a constructed square
Framing ==
    /\ pc \in {"plain", "framed"}
    /\ Classified
    /\ call' = Op("framing", 0, 0)
    /\ UNCHANGED <<calls, before>>

\* framing(), status 0: the tiers are written
Commit ==
    /\ pc = "classified"
    /\ status = 0
    /\ LET w == write_tiers(matrix, n, framing_tiers(frame, corners), 0)
           byUser == call.op = "framing"
       IN  /\ matrix' = w.matrix
           /\ err' = w.err
           /\ pc' = IF w.err # "none" THEN "error"
                    ELSE IF byUser THEN "reframed" ELSE "framed"
           /\ magic' = IF byUser \/ w.err # "none" THEN None
                       ELSE row_sum(w.matrix, n, 0)
    /\ UNCHANGED <<source, algorithm, randomize, n, bundleVars, framingVars,
                   rng, callVars>>

\* framing(), status nonzero: parse_status reads the undefined name "error"
\* (line 501), and the NameError is not caught by "except ValueError"
Reject ==
    /\ pc = "classified"
    /\ status # 0
    /\ pc' = "error"
    /\ err' = "NameError"
    /\ UNCHANGED <<squareVars, magic, bundleVars, framingVars, rng, callVars>>

\* square.check()
Check ==
    /\ pc \in {"plain", "framed"}
    /\ magic' = row_sum(matrix, n, 0)
    /\ IF check(matrix, n)
       THEN pc' = "checked" /\ err' = "none"
       ELSE pc' = "error" /\ err' = "Warning"
    /\ UNCHANGED <<squareVars, bundleVars, framingVars, rng, callVars>>

\* square = BundledMagicSquare(square): the checked square is the next
\* picture (squares built without randomisation, of order up to MaxOrder)
Chain ==
    /\ pc = "checked"
    /\ algorithm = 0 /\ ~randomize
    /\ n <= MaxOrder
    /\ pc' = "idle"
    /\ source' = [n |-> n, matrix |-> matrix]
    /\ algorithm' = 0
    /\ randomize' = FALSE
    /\ n' = 0
    /\ matrix' = EmptyMap
    /\ magic' = None
    /\ green' = EmptyMap
    /\ purple' = EmptyMap
    /\ status' = None
    /\ frame' = NoFrame
    /\ corners' = NoCorners
    /\ err' = "none"
    /\ rng' = 0
    /\ call' = NoCall
    /\ calls' = 0
    /\ before' = NoMaps

Next ==
    \/ \E alg \in Algorithms, rnd \in BOOLEAN : Construct(alg, rnd)
    \/ Frame0Odd
    \/ Frame04
    \/ Frame0EvenlyEven
    \/ Frame0OddlyEven
    \/ Classify
    \/ Commit
    \/ Check
    \/ Chain

Spec == Init /\ [][Next]_vars

----------------------------------------------------------------------------
(* Calls of the link operations on square.bundle by the owner of a         *)
(* constructed square                                                      *)

\* the labels used as arguments: the low labels 1..MaxArg, and the
\* complements of 1..MaxArg+1; 0 is no node, a low label is no target node
Sources == 1..MaxArg
Targets == {complement(source.n, a) : a \in 1..MaxArg+1}
Labels == Sources \cup Targets

\* one call c on the bundle of a constructed square
BundleCall(c) ==
    LET b == exec(source.n, [green |-> green, purple |-> purple,
                             err |-> "none"], c)
    IN  /\ pc \in {"plain", "framed"}
        /\ calls < MaxCalls
        /\ calls' = calls + 1
        /\ call' = c
        /\ before' = [green |-> green, purple |-> purple]
        /\ green' = b.green
        /\ purple' = b.purple
        /\ err' = b.err
        /\ UNCHANGED <<pc, squareVars, magic, framingVars, rng>>

LinkGreen(s, t) == BundleCall(Op("link_green", s, t))
LinkPurple(s, t) == BundleCall(Op("link_purple", s, t))
UnlinkGreen(node) == BundleCall(Op("unlink_green", node, 0))
UnlinkPurple(node) == BundleCall(Op("unlink_purple", node, 0))
ClinkGreen(s) == BundleCall(Op("clink_green", s, 0))
ClinkPurple(s) == BundleCall(Op("clink_purple", s, 0))

InitBundle == Start(Siamese1)

NextBundle ==
    \/ \E alg \in Algorithms : Construct(alg, FALSE)
    \/ Frame0Odd
    \/ Classify
    \/ Commit
    \/ Reject
    \/ Framing
    \/ \E s \in Sources \cup {0}, t \in Targets \cup {1} : LinkGreen(s, t)
    \/ \E s \in Sources \cup {0}, t \in Targets \cup {1} : LinkPurple(s, t)
    \/ \E node \in Labels : UnlinkGreen(node)
    \/ \E node \in Labels : UnlinkPurple(node)
    \/ \E s \in Labels \cup {0} : ClinkGreen(s)
    \/ \E s \in Labels \cup {0} : ClinkPurple(s)

SpecBundle == InitBundle /\ [][NextBundle]_vars

----------------------------------------------------------------------------
(* FramedMagicSquare.vertical_permutation / horizontal_permutation; m is    *)
(* the length of range(1, self.n-1)                                         *)

Invalid == [err |-> "ValueError", map |-> EmptyMap]
Valid(map) == [err |-> "none", map |-> map]

\* _sigma_list: sorted(sigma) must be the list 1..m; fixed points are left
\* out of the result
sigma_list(m, sg) ==
    IF ~(Len(sg) = m /\ {sg[i] : i \in 1..Len(sg)} = 1..m) THEN Invalid
    ELSE Valid([i \in {j \in 1..m : sg[j] # j} |-> sg[i]])

\* _sigma_tuple: a cycle
sigma_tuple(m, sg) ==
    LET entries == {sg[i] : i \in 1..Len(sg)}
    IN  IF ~(entries \subseteq 1..m) THEN Invalid
        ELSE IF Len(sg) < 2 THEN Valid(EmptyMap)
        ELSE IF Cardinality(entries) # Len(sg) THEN Invalid
        ELSE Valid([x \in entries |->
                      LET i == CHOOSE j \in 1..Len(sg) : sg[j] = x
                      IN  sg[IF i < Len(sg) THEN i + 1 ELSE 1]])

\* _sigma_dict
sigma_dict(m, sg) ==
    LET keys == DOMAIN sg
        values == {sg[x] : x \in DOMAIN sg}
    IN  IF ~(keys \subseteq 1..m) THEN Invalid
        ELSE IF ~(values \subseteq 1..m) THEN Invalid
        ELSE IF keys # values THEN Invalid
        ELSE Valid(sg)

\* _sigma: the dispatch on the type of sigma
sigma_of(kind, m, sg) ==
    CASE kind = "list" -> sigma_list(m, sg)
      [] kind = "tuple" -> sigma_tuple(m, sg)
      [] kind = "dict" -> sigma_dict(m, sg)

\* the two tiers permuted: name is "vertical_permutation" (left, right) or
\* "horizontal_permutation" (top, bottom)
TierCells(name, order, i) ==
    IF name = "vertical_permutation"
    THEN << <<i, 0>>, <<i, order-1>> >>
    ELSE << <<0, i>>, <<order-1, i>> >>

\* faulty variant: only the first tier of the two is written
permute_tiers_first(mx, order, name, map) ==
    LET items == {map[key] : key \in DOMAIN map}
        from(item) == CHOOSE key \in DOMAIN map : map[key] = item
    IN  [p \in Cells(order) |->
            IF \E item \in items : p = TierCells(name, order, item)[1]
            THEN LET item == CHOOSE it \in items :
                                 p = TierCells(name, order, it)[1]
                 IN  mx[TierCells(name, order, from(item))[1]]
            ELSE mx[p]]

\* the two loops of a permutation: mapping[sigma[key]] is the pair read at
\* key, then each pair is written at its item
permute_tiers(mx, order, name, map) ==
    LET items == {map[key] : key \in DOMAIN map}
        from(item) == CHOOSE key \in DOMAIN map : map[key] = item
    IN  [p \in Cells(order) |->
            IF \E item \in items, t \in 1..2 :
                  p = TierCells(name, order, item)[t]
            THEN LET w == CHOOSE w \in items \X (1..2) :
                              p = TierCells(name, order, w[1])[w[2]]
                 IN  mx[TierCells(name, order, from(w[1]))[w[2]]]
            ELSE mx[p]]

\* the arguments tried: lists of length m and m-1, cycles of length up to
\* m, dicts on the subsets of 1..m, all with entries in 1..m
PermLists(m) == [1..m -> 1..m] \cup [1..(m-1) -> 1..m]
PermCycles(m) == UNION {[1..l -> 1..m] : l \in 0..m}
PermDicts(m) == UNION {[D -> 1..m] : D \in SUBSET (1..m)}

\* vertical_permutation(sg) or horizontal_permutation(sg) called on a
\* constructed square, check() included
Permutation(name, kind, sg) ==
    LET v == sigma_of(kind, n - 2, sg)
        mx == permute_tiers(matrix, n, name, v.map)
    IN  /\ pc \in {"framed", "permuted"}
        /\ calls < MaxPermutations
        /\ calls' = calls + 1
        /\ call' = Op(name, sg, kind)
        /\ pc' = "permuted"
        /\ IF v.err # "none"
           THEN /\ err' = v.err
                /\ UNCHANGED <<matrix, magic>>
           ELSE /\ matrix' = mx
                /\ magic' = row_sum(mx, n, 0)
                /\ err' = IF check(mx, n) THEN "none" ELSE "Warning"
        /\ UNCHANGED <<source, algorithm, randomize, n, bundleVars,
                       framingVars, rng, before>>

InitPermute == Start(Siamese3)

NextPermute ==
    \/ \E rnd \in BOOLEAN : Construct(0, rnd)
    \/ Frame0Odd
    \/ Classify
    \/ Commit
    \/ \E sg \in PermLists(n - 2) :
          Permutation("vertical_permutation", "list", sg)
    \/ \E sg \in PermCycles(n - 2) :
          Permutation("vertical_permutation", "tuple", sg)
    \/ \E sg \in PermDicts(n - 2) :
          Permutation("vertical_permutation", "dict", sg)
    \/ \E sg \in PermLists(n - 2) :
          Permutation("horizontal_permutation", "list", sg)
    \/ \E sg \in PermCycles(n - 2) :
          Permutation("horizontal_permutation", "tuple", sg)
    \/ \E sg \in PermDicts(n - 2) :
          Permutation("horizontal_permutation", "dict", sg)

SpecPermute == InitPermute /\ [][NextPermute]_vars

----------------------------------------------------------------------------
(* MagicSquare.reflect, rotate, translate; alBuzjaniBorder                  *)

\* reflect(axis), on a square sq = [n, matrix]
reflect(sq, axis) ==
    LET k == sq.n
    IN  [n |-> k,
         matrix |-> [p \in Cells(k) |->
            CASE axis = "h" -> sq.matrix[<<k - p[1] - 1, p[2]>>]
              [] axis = "v" -> sq.matrix[<<p[1], k - p[2] - 1>>]
              [] axis = "d" -> sq.matrix[<<p[2], p[1]>>]
              [] axis = "a" -> sq.matrix[<<k - p[2] - 1, k - p[1] - 1>>]]]

\* rotate(right_angles): reflect() followed by reflect(axes[right_angles])
rotate(sq, right_angles) ==
    LET axes == <<"h", "a", "v", "d">>
    IN  reflect(reflect(sq, "h"), axes[(right_angles % 4) + 1])

\* translate(h)
translate(sq, h) ==
    [n |-> sq.n, matrix |-> [p \in Cells(sq.n) |-> sq.matrix[p] + h]]

\* FramedMagicSquare.configure up to configure_frame: the picture is mounted
\* at (i+1, j+1); the border cells keep the float('inf') of initialize
\* until configure_frame writes them (Infinity stands for float('inf'))
Infinity == 1000000
mount(pic) ==
    [p \in Cells(pic.n + 2) |->
        IF p[1] \in 1..pic.n /\ p[2] \in 1..pic.n
        THEN pic.matrix[<<p[1]-1, p[2]-1>>]
        ELSE Infinity]

\* the writes self.left[i] = a, self.right[i] = b and
\* self.bottom[j] = a, self.top[j] = b on a square of the given order
left_right(mx, order, i, a, b) ==
    Put(Put(mx, <<i, 0>>, a), <<i, order-1>>, b)
bottom_top(mx, order, j, a, b) ==
    Put(Put(mx, <<order-1, j>>, a), <<0, j>>, b)

\* configure_frame, first loop; st = [mx, i, j, m]
RECURSIVE buzjani_low(_, _)
buzjani_low(order, st) ==
    IF ~(st.m < order - 2) THEN st
    ELSE LET bmax == order * order + 1
             m1 == left_right(st.mx, order, st.i, st.m, bmax - st.m)
             m2 == bottom_top(m1, order, st.j, st.m + 1, bmax - (st.m + 1))
         IN  buzjani_low(order, [mx |-> m2, i |-> st.i - 1, j |-> st.j + 1,
                                 m |-> st.m + 2])

\* faulty variant: i is not decremented after the middle row is written
buzjani_middle_stuck(order, st) ==
    LET bmax == order * order + 1
        m == st.m
        m1 == bottom_top(st.mx, order, st.j, m, bmax - m)
        m2 == Put(Put(m1, <<0, 0>>, m + 1),
                  <<order-1, order-1>>, bmax - (m + 1))
        m3 == left_right(m2, order, st.i, bmax - (m + 2), m + 2)
        m4 == Put(Put(m3, <<0, order-1>>, m + 3),
                  <<order-1, 0>>, bmax - (m + 3))
    IN  [mx |-> m4, i |-> st.i, j |-> st.j + 1, m |-> m + 4]

\* configure_frame, between the loops: the last bottom/top pair, the top
\* left corner, the middle row and the top right corner
buzjani_middle(order, st) ==
    LET bmax == order * order + 1
        m == st.m
        m1 == bottom_top(st.mx, order, st.j, m, bmax - m)
        m2 == Put(Put(m1, <<0, 0>>, m + 1),
                  <<order-1, order-1>>, bmax - (m + 1))
        m3 == left_right(m2, order, st.i, bmax - (m + 2), m + 2)
        m4 == Put(Put(m3, <<0, order-1>>, m + 3),
                  <<order-1, 0>>, bmax - (m + 3))
    IN  [mx |-> m4, i |-> st.i - 1, j |-> st.j + 1, m |-> m + 4]

\* configure_frame, second loop
RECURSIVE buzjani_high(_, _)
buzjani_high(order, st) ==
    IF ~(st.i > 0) THEN st
    ELSE LET bmax == order * order + 1
             m1 == left_right(st.mx, order, st.i, bmax - st.m, st.m)
             m2 == bottom_top(m1, order, st.j, bmax - (st.m + 1), st.m + 1)
         IN  buzjani_high(order, [mx |-> m2, i |-> st.i - 1, j |-> st.j + 1,
                                  m |-> st.m + 2])

\* alBuzjaniBorder.configure_frame on the square mx of the given order
buzjani_frame(mx, order) ==
    LET st0 == [mx |-> mx, i |-> order - 2, j |-> 1, m |-> 1]
    IN  buzjani_high(order,
            buzjani_middle(order, buzjani_low(order, st0))).mx

\* the two assertions of alBuzjaniBorder.__init__; the magic number of a
\* checked square is the sum of its first row
buzjani_ok(sq) ==
    /\ sq.n % 2 = 1
    /\ row_sum(sq.matrix, sq.n, 0) = (sq.n * (sq.n * sq.n + 1)) \div 2

\* the pictures that are bordered first
BuzjaniPictures == {Order0, Siamese1, Siamese3, Ones3, Melencolia1514}

\* alBuzjaniBorder(picture), the check() of MagicSquare.__init__ included
alBuzjaniBorder ==
    /\ pc = "idle"
    /\ UNCHANGED <<source, algorithm, randomize, bundleVars, framingVars,
                   rng, callVars>>
    /\ IF ~buzjani_ok(source)
       THEN /\ pc' = "error"
            /\ err' = "AssertionError"
            /\ UNCHANGED <<n, matrix, magic>>
       ELSE LET order == source.n + 2
                mx == buzjani_frame(
                          mount(translate(source, 2 * source.n + 2)), order)
            IN  /\ n' = order
                /\ matrix' = mx
                /\ magic' = row_sum(mx, order, 0)
                /\ IF check(mx, order)
                   THEN pc' = "bordered" /\ err' = "none"
                   ELSE pc' = "error" /\ err' = "Warning"

\* foo = alBuzjaniBorder(foo.rotate(right_angles)): the bordered square,
\* rotated, is the next picture (pictures of order up to MaxOrder)
Rotate(right_angles) ==
    /\ pc = "bordered"
    /\ n <= MaxOrder
    /\ pc' = "idle"
    /\ source' = rotate([n |-> n, matrix |-> matrix], right_angles)
    /\ n' = 0
    /\ matrix' = EmptyMap
    /\ magic' = None
    /\ err' = "none"
    /\ UNCHANGED <<algorithm, randomize, bundleVars, framingVars, rng,
                   callVars>>

InitBuzjani == \E pic \in BuzjaniPictures : Start(pic)

NextBuzjani ==
    \/ alBuzjaniBorder
    \/ \E right_angles \in 0..3 : Rotate(right_angles)

SpecBuzjani == InitBuzjani /\ [][NextBuzjani]_vars

----------------------------------------------------------------------------
(* alAntakiEvenlyEven and alAntakiOddlyEven; k is the order of the picture *)

\* the magic square of order 6 of the self-test
Sol ==
    from_sq(<< << 6, 32,  3, 34, 35,  1>>,
               << 7, 11, 27, 28,  8, 30>>,
               <<19, 14, 16, 15, 23, 24>>,
               <<18, 20, 22, 21, 17, 13>>,
               <<25, 29, 10,  9, 26, 12>>,
               <<36,  5, 33,  4,  2, 31>> >>)

\* prime = lambda i: entry_limit - i
prime(k, i) == (k + 2) * (k + 2) + 1 - i

\* the cell of tier[i] in a square of order k+2
tier_cell(k, tier, i) ==
    CASE tier = "top" -> <<0, i>>
      [] tier = "bottom" -> <<k + 1, i>>
      [] tier = "left" -> <<i, 0>>
      [] tier = "right" -> <<i, k + 1>>

\* the four corner writes of both configure_frame methods
antaki_corners(k, mx) ==
    LET m1 == Put(mx, tier_cell(k, "top", 0), k + 1)
        m2 == Put(m1, tier_cell(k, "top", k + 1), k + 2)
        m3 == Put(m2, tier_cell(k, "bottom", k + 1), prime(k, k + 1))
    IN  Put(m3, tier_cell(k, "bottom", 0), prime(k, k + 2))

\* alAntakiEvenlyEven.configure_frame, the passes i..k of the loop
RECURSIVE evenly_even_loop(_, _, _)
evenly_even_loop(k, mx, i) ==
    IF i > k THEN mx
    ELSE LET low == IF i < k - 5 THEN i % 4 < 2
                    ELSE (i - (k - 6)) % 6 \in {1, 2}
             m1 == Put(mx, tier_cell(k, "top", i),
                       IF low THEN i ELSE prime(k, i))
             m2 == Put(m1, tier_cell(k, "bottom", i),
                       IF low THEN prime(k, i) ELSE i)
             j == k + 2 + i
             lowj == IF i < k - 1 THEN i % 4 < 2 ELSE i % 2 = 1
             m3 == Put(m2, tier_cell(k, "right", i),
                       IF lowj THEN j ELSE prime(k, j))
             m4 == Put(m3, tier_cell(k, "left", i),
                       IF lowj THEN prime(k, j) ELSE j)
         IN  evenly_even_loop(k, m4, i + 1)

evenly_even_frame(k, mx) == evenly_even_loop(k, antaki_corners(k, mx), 1)

\* alAntakiOddlyEven.configure_frame: the dicts ccw, key and opp
ccw(tier) ==
    CASE tier = "bottom" -> "right" [] tier = "right" -> "top"
      [] tier = "top" -> "left" [] tier = "left" -> "bottom"
key(tier) == IF tier \in {"top", "bottom"} THEN "top" ELSE "left"
opp(tier) ==
    CASE tier = "top" -> "bottom" [] tier = "bottom" -> "top"
      [] tier = "left" -> "right" [] tier = "right" -> "left"

\* here[i], there[i] = k, prime(k), after state[key] += 1;
\* st = [mx, k, here, state], state = [top, left]
place(order, st, value, here) ==
    LET cnt == [st.state EXCEPT ![key(here)] = @ + 1]
        i == cnt[key(here)]
        m1 == Put(st.mx, tier_cell(order, here, i), value)
        m2 == Put(m1, tier_cell(order, opp(here), i), prime(order, value))
    IN  [mx |-> m2, k |-> value, here |-> here, state |-> cnt]

\* STEP ONE: while k < 3, here and there are swapped
RECURSIVE step_swap(_, _, _)
step_swap(order, st, limit) ==
    IF ~(st.k < limit) THEN st
    ELSE step_swap(order, place(order, st, st.k + 1, opp(st.here)), limit)

\* faulty variant of the rotation: here is rotated clockwise
step_rotate_cw(order, st, limit) ==
    LET RECURSIVE go(_)
        go(t) == IF ~(t.k < limit) THEN t
                 ELSE go(place(order, t, t.k + 1, opp(ccw(t.here))))
    IN  go(st)

\* STEP TWO and STEP FIVE: while k < limit, here is rotated
RECURSIVE step_rotate(_, _, _)
step_rotate(order, st, limit) ==
    IF ~(st.k < limit) THEN st
    ELSE step_rotate(order, place(order, st, st.k + 1, ccw(st.here)), limit)

\* STEP FOUR: while k < n+4, here stays left
RECURSIVE step_left(_, _, _)
step_left(order, st, limit) ==
    IF ~(st.k < limit) THEN st
    ELSE step_left(order, place(order, st, st.k + 1, "left"), limit)

oddly_even_frame(k, mx) ==
    LET st0 == [mx |-> mx, k |-> 0, here |-> "top",
                state |-> [top |-> 0, left |-> 0]]
        st1 == step_swap(k, st0, 3)
        st2 == step_rotate(k, [st1 EXCEPT !.here = "bottom"], k)
        st3 == [st2 EXCEPT !.mx = antaki_corners(k, st2.mx), !.k = k + 2]
        st4 == step_left(k, [st3 EXCEPT !.here = "left"], k + 4)
        st5 == step_rotate(k, st4, 2 * k + 2)
    IN  st5.mx

\* the assertions of the two constructors
evenly_even_ok(sq) ==
    /\ sq.n % 4 = 2
    /\ row_sum(sq.matrix, sq.n, 0) = (sq.n * (sq.n * sq.n + 1)) \div 2
oddly_even_ok(sq) ==
    /\ sq.n % 4 = 0
    /\ row_sum(sq.matrix, sq.n, 0) = (sq.n * (sq.n * sq.n + 1)) \div 2

\* a constructor of al_Antaki.py applied to the picture: the assertions,
\* the translation, the frame mx and the check() of MagicSquare.__init__
Framing2(name, ok, mx) ==
    /\ pc = "idle"
    /\ call' = Op(name, 0, 0)
    /\ UNCHANGED <<source, algorithm, randomize, bundleVars, framingVars,
                   rng, calls, before>>
    /\ IF ~ok
       THEN /\ pc' = "error"
            /\ err' = "AssertionError"
            /\ UNCHANGED <<n, matrix, magic>>
       ELSE /\ n' = source.n + 2
            /\ matrix' = mx
            /\ magic' = row_sum(mx, source.n + 2, 0)
            /\ IF check(mx, source.n + 2)
               THEN pc' = "bordered" /\ err' = "none"
               ELSE pc' = "error" /\ err' = "Warning"

alAntakiEvenlyEven ==
    Framing2("alAntakiEvenlyEven", evenly_even_ok(source),
             evenly_even_frame(source.n,
                 mount(translate(source, 2 * source.n + 2))))

alAntakiOddlyEven ==
    Framing2("alAntakiOddlyEven", oddly_even_ok(source),
             oddly_even_frame(source.n,
                 mount(translate(source, 2 * source.n + 2))))

\* the square sq is the next picture
NextPicture(sq) ==
    /\ pc = "bordered"
    /\ calls < MaxFrames
    /\ calls' = calls + 1
    /\ pc' = "idle"
    /\ source' = sq
    /\ n' = 0
    /\ matrix' = EmptyMap
    /\ magic' = None
    /\ err' = "none"
    /\ call' = NoCall
    /\ UNCHANGED <<algorithm, randomize, bundleVars, framingVars, rng,
                   before>>

\* sq3 = test1(sq2): the framed square is the next picture
Reframe == NextPicture([n |-> n, matrix |-> matrix])

\* the framed square, reflected, is the next picture
Reflect(axis) == NextPicture(reflect([n |-> n, matrix |-> matrix], axis))

AntakiPictures == {Siamese3, Melencolia1514, Sol}

InitAntaki == \E pic \in AntakiPictures : Start(pic)

NextAntaki ==
    \/ alAntakiEvenlyEven
    \/ alAntakiOddlyEven
    \/ Reframe
    \/ \E axis \in {"h", "d"} : Reflect(axis)

SpecAntaki == InitAntaki /\ [][NextAntaki]_vars

----------------------------------------------------------------------------
(* The base class FramedMagicSquare(picture, magic_zero, debug), whose       *)
(* configure_frame writes 0 in every border cell                             *)

\* faulty variant: the border keeps the float('inf') of initialize
configure_frame_untouched(mx, order) == mx

\* FramedMagicSquare.configure_frame on the square mx of the given order
configure_frame(mx, order) ==
    [p \in Cells(order) |->
        IF p[1] \in {0, order-1} \/ p[2] \in {0, order-1} THEN 0 ELSE mx[p]]

\* picture.magic of a picture that passed its check: the sum of its first row
picture_magic(sq) == row_sum(sq.matrix, sq.n, 0)

\* a list of rows that is no magic square
Skew2 == from_sq(<< <<1, 2>>, <<3, 4>> >>)

\* the pictures framed first: magic squares translated downwards by up to
\* MaxShift, some of them to the magic constant 0
FramedPictures ==
    {translate(pic, 0 - h) :
        pic \in {Siamese1, Order2, Siamese3, Ones3, Melencolia1514},
        h \in 0..MaxShift}
    \cup {Order0, Skew2}

\* FramedMagicSquare(picture, magic_zero, debug)
FramedMagicSquare(magic_zero, debug) ==
    /\ pc = "idle"
    /\ call' = Op("FramedMagicSquare", IF magic_zero THEN 1 ELSE 0,
                  IF debug THEN 1 ELSE 0)
    /\ UNCHANGED <<source, algorithm, randomize, bundleVars, framingVars,
                   rng, calls, before>>
    /\ IF ~check(source.matrix, source.n)
       THEN \* MagicSquare.from_sq(picture) raises
            /\ pc' = "error"
            /\ err' = "Warning"
            /\ UNCHANGED <<n, matrix, magic>>
       ELSE IF magic_zero /\ picture_magic(source) # 0
       THEN /\ pc' = "error"
            /\ err' = "AssertionError"
            /\ UNCHANGED <<n, matrix, magic>>
       ELSE LET order == source.n + 2
                mx == configure_frame(mount(source), order)
            IN  /\ n' = order
                /\ matrix' = mx
                /\ magic' = row_sum(mx, order, 0)
                /\ IF debug \/ check(mx, order)
                   THEN pc' = "mounted" /\ err' = "none"
                   ELSE pc' = "error" /\ err' = "Warning"

\* square.check() on the square returned by the constructor
CheckFramed ==
    /\ pc = "mounted"
    /\ magic' = row_sum(matrix, n, 0)
    /\ IF check(matrix, n)
       THEN pc' = "checked" /\ err' = "none"
       ELSE pc' = "error" /\ err' = "Warning"
    /\ UNCHANGED <<squareVars, bundleVars, framingVars, rng, callVars>>

\* the checked square is the next picture (orders up to MaxOrder)
Nest ==
    /\ pc = "checked"
    /\ n <= MaxOrder
    /\ pc' = "idle"
    /\ source' = [n |-> n, matrix |-> matrix]
    /\ n' = 0
    /\ matrix' = EmptyMap
    /\ magic' = None
    /\ err' = "none"
    /\ call' = NoCall
    /\ UNCHANGED <<algorithm, randomize, bundleVars, framingVars, rng,
                   calls, before>>

InitFramed == \E pic \in FramedPictures : Start(pic)

NextFramed ==
    \/ \E magic_zero \in BOOLEAN, debug \in BOOLEAN :
          FramedMagicSquare(magic_zero, debug)
    \/ CheckFramed
    \/ Nest

SpecFramed == InitFramed /\ [][NextFramed]_vars

----------------------------------------------------------------------------
(* LineBundle.green_sum and purple_sum, read by the owner of a constructed   *)
(* square.  The sums are kept doubled: a complementary link adds a half.     *)

\* the term a node adds to the accumulator acc ("s", "t" or "u") in one pass
\* of the loop over the map f; halves tells whether the loop has the branch
\* "if node == partner" of LineBundle
slope_term(k, f, node, acc, halves) ==
    LET target == f[node]
        partner == complement(k, target)
        to == IF halves /\ node = partner THEN "u"
              ELSE IF is_source_node(k, node) THEN "s" ELSE "t"
    IN  IF to # acc THEN 0
        ELSE IF to = "u" THEN node - target ELSE node - partner

\* an accumulator after the loop "for node in f" (doubled for "u")
RECURSIVE slope_acc(_, _, _, _, _)
slope_acc(k, f, nodes, acc, halves) ==
    IF nodes = {} THEN 0
    ELSE LET node == CHOOSE x \in nodes : TRUE
         IN  slope_term(k, f, node, acc, halves)
                + slope_acc(k, f, nodes \ {node}, acc, halves)

\* "assert s == t" and the value returned, doubled
slope_result(k, f, halves) ==
    LET s == slope_acc(k, f, DOMAIN f, "s", halves)
        t == slope_acc(k, f, DOMAIN f, "t", halves)
        u == slope_acc(k, f, DOMAIN f, "u", halves)
    IN  IF s # t THEN [err |-> "AssertionError", sum2 |-> 0]
        ELSE [err |-> "none", sum2 |-> 2 * s + u]

\* LineBundle.green_sum: the class body defines the property twice and the
\* second definition, which loops over self.purple, is the one in effect
green_sum(k, g, p) == slope_result(k, p, TRUE)

\* LineBundle inherits purple_sum of _LineBundle, which has no branch for
\* complementary links
purple_sum(k, g, p) == slope_result(k, p, FALSE)

\* a read of bundle.green_sum or bundle.purple_sum; the value read (doubled)
\* is kept in call.a
ReadSum(name, r) ==
    /\ pc \in {"plain", "framed"}
    /\ call' = Op(name, r.sum2, 0)
    /\ err' = r.err
    /\ UNCHANGED <<pc, squareVars, magic, bundleVars, framingVars, rng,
                   calls, before>>

GreenSum == ReadSum("green_sum", green_sum(source.n, green, purple))
PurpleSum == ReadSum("purple_sum", purple_sum(source.n, green, purple))

InitSums == Start(Siamese1)

NextSums ==
    \/ \E alg \in Algorithms : Construct(alg, FALSE)
    \/ Frame0Odd
    \/ Classify
    \/ Commit
    \/ \E s \in Sources, t \in Targets : LinkGreen(s, t)
    \/ \E s \in Sources, t \in Targets : LinkPurple(s, t)
    \/ \E node \in Labels : UnlinkGreen(node)
    \/ \E node \in Labels : UnlinkPurple(node)
    \/ \E s \in Labels : ClinkGreen(s)
    \/ \E s \in Labels : ClinkPurple(s)
    \/ GreenSum
    \/ PurpleSum

SpecSums == InitSums /\ [][NextSums]_vars

----------------------------------------------------------------------------
(* Properties *)

Range(q) == {q[i] : i \in DOMAIN q}

\* the entries of the square m are exactly 1..order^2
IsNormal(m, order) == {m[p] : p \in Cells(order)} = 1..(order * order)

MagicConstant(order) == (order * (order * order + 1)) \div 2

\* the picture is a magic square with the entries 1..n^2
TraditionalPicture ==
    /\ IsNormal(source.matrix, source.n)
    /\ \A i \in 0..source.n-1 :
          /\ row_sum(source.matrix, source.n, i) = MagicConstant(source.n)
          /\ column_sum(source.matrix, source.n, i) = MagicConstant(source.n)
    /\ main_diagonal_sum(source.matrix, source.n) = MagicConstant(source.n)
    /\ back_diagonal_sum(source.matrix, source.n) = MagicConstant(source.n)

\* the construction with the default algorithm has returned a square
Framed == pc \in {"framed", "checked"} /\ algorithm = 0

\* C1: the default algorithm, applied to a magic square of a valid order n
\* with the entries 1..n^2, yields a square of order n+2 in which every row,
\* every column and both diagonals sum to (n+2)((n+2)^2+1)/2 and whose
\* entries are exactly 1..(n+2)^2, for every coin flip and shuffle outcome.
C1_FramedIsMagic ==
    (Framed /\ TraditionalPicture) =>
        /\ n = source.n + 2
        /\ \A i \in 0..n-1 :
              /\ row_sum(matrix, n, i) = MagicConstant(n)
              /\ column_sum(matrix, n, i) = MagicConstant(n)
        /\ main_diagonal_sum(matrix, n) = MagicConstant(n)
        /\ back_diagonal_sum(matrix, n) = MagicConstant(n)
        /\ IsNormal(matrix, n)

C1_Witness ==
    /\ pc = "framed" /\ algorithm = 0 /\ randomize /\ rng = 2
    /\ TraditionalPicture
    /\ source.n = 8

\* C2: in a committed frame every border cell and the diametrically
\* opposite border cell sum to (n+2)^2+1: top[i] + bottom[i] and
\* left[i] + right[i] for the non-corner indices, and each corner with the
\* corner at the other end of its diagonal.
C2_OppositeCellsComplementary ==
    Framed =>
        /\ \A i \in 1..n-2 :
              /\ matrix[<<0, i>>] + matrix[<<n-1, i>>] = n * n + 1
              /\ matrix[<<i, 0>>] + matrix[<<i, n-1>>] = n * n + 1
        /\ matrix[<<0, 0>>] + matrix[<<n-1, n-1>>] = n * n + 1
        /\ matrix[<<0, n-1>>] + matrix[<<n-1, 0>>] = n * n + 1

\* the Lo Shu picture: every pair sums to 26
C2_Witness ==
    /\ pc = "framed" /\ algorithm = 0 /\ source = Siamese3
    /\ matrix[<<0, 0>>] + matrix[<<4, 4>>] = 26
    /\ matrix[<<0, 2>>] + matrix[<<4, 2>>] = 26
    /\ [j \in 1..5 |-> matrix[<<0, j-1>>]] = <<4, 1, 21, 19, 20>>
    /\ [j \in 1..5 |-> matrix[<<4, j-1>>]] = <<6, 25, 5, 7, 22>>

\* the links of a map, as unordered pairs
Links(f) == {{x, f[x]} : x \in DOMAIN f}

\* twice the slope of the link l of the map f: a normal link {s, t} with
\* source s has slope s - complement(t); a complementary link made on the
\* node s (the entry s -> complement(s)) has slope (s - complement(s))/2
Slope2(k, f, l) ==
    LET s == CHOOSE x \in l : is_source_node(k, x)
        t == CHOOSE x \in l : x # s
        on == CHOOSE x \in l : x \in DOMAIN f /\ f[x] = complement(k, x)
    IN  IF \E x \in l : complement(k, x) \in l
        THEN on - complement(k, on)
        ELSE 2 * (s - complement(k, t))

RECURSIVE SumOver(_, _, _)
SumOver(k, f, ls) ==
    IF ls = {} THEN 0
    ELSE LET l == CHOOSE x \in ls : TRUE
         IN  Slope2(k, f, l) + SumOver(k, f, ls \ {l})

SlopeSum2(k, f) == SumOver(k, f, Links(f))

\* C3: when a rule set has finished, the slopes of the green links sum to 0
\* and the slopes of the purple links sum to 0.
C3_SlopeSumsZero ==
    pc = "linked" =>
        /\ SlopeSum2(source.n, green) = 0
        /\ SlopeSum2(source.n, purple) = 0

\* the odd rule, with its complementary links, after a flip of tails
C3_Witness ==
    /\ pc = "linked" /\ source.n = 5 /\ randomize
    /\ 1 \in DOMAIN purple
    /\ \E x \in DOMAIN green : green[x] = complement(source.n, x)

\* C4: when the selected rule set has finished, the classification returns
\* status 0: every label of 1..2n+2 is in the top, bottom, left or right
\* list or in a corner, and each of the four corners holds one label.
C4_ClassificationSucceeds ==
    pc = "classified" =>
        /\ status = 0
        /\ \A c \in 0..3 : Len(corners[c]) = 1
        /\ \A node \in 1..(2 * source.n + 2) :
              \/ node \in Range(frame.top) \cup Range(frame.bottom)
              \/ node \in Range(frame.left) \cup Range(frame.right)
              \/ \E c \in 0..3 : node \in Range(corners[c])

C4_Witness ==
    /\ pc = "classified" /\ source.n = 10 /\ randomize
    /\ status = 0

\* the square built from the picture src when my_random returns 1 and
\* my_shuffle leaves each list in its original order
Unrandomized(src) ==
    LET k == src.n
        ops == IF k % 2 = 1 THEN frame0_odd(k, 1)
               ELSE IF k = 4 THEN frame0_4(k)
               ELSE IF k % 4 = 0
               THEN frame0_evenly_even(k, Range2(1, k - 2),
                                       Range2(k + 5, 2 * k + 2))
               ELSE frame0_oddly_even(k, Range2(1, k),
                                      Range2(k + 9, 2 * k + 2))
        b == run(k, [green |-> EmptyMap, purple |-> EmptyMap,
                     err |-> "none"], ops)
        t == framing_tiers(framing_frame(k, b.green, b.purple),
                           framing_corners(k, b.green, b.purple))
    IN  write_tiers(configure(src), k + 2, t, 0).matrix

\* C5: with randomize=False the square depends on the picture alone,
\* whatever the random source would have returned: it is the square of
\* my_random = 1 and unshuffled lists, and the random source is not called.
C5_Deterministic ==
    (Framed /\ ~randomize) =>
        /\ matrix = Unrandomized(source)
        /\ rng = 0

\* the square of order 10 built by the chain that starts at Melencolia I
C5_Witness ==
    /\ pc = "framed" /\ algorithm = 0 /\ ~randomize
    /\ source.n = 8 /\ rng = 0
    /\ [j \in 1..10 |-> matrix[<<0, j-1>>]]
          = <<9, 1, 99, 3, 97, 5, 95, 94, 11, 91>>
    /\ [i \in 1..10 |-> matrix[<<i-1, 0>>]]
          = <<9, 93, 89, 88, 14, 86, 16, 17, 83, 10>>

\* C6: in every square built from a picture of order n, the cell
\* (i+1, j+1) minus 2n+2 is the cell (i, j) of the picture; no rule set and
\* no tier write changes an interior cell.
C6_RoundTrip ==
    pc \in {"configured", "linked", "classified", "framed", "plain",
            "checked"} =>
        \A i, j \in 0..source.n-1 :
            matrix[<<i+1, j+1>>] - (2 * source.n + 2)
                = source.matrix[<<i, j>>]

C6_Witness ==
    /\ pc = "framed" /\ algorithm = 0 /\ source = Melencolia1514
    /\ matrix[<<1, 1>>] = 26 /\ matrix[<<0, 0>>] = 1

\* C7: the construction for a picture of order 2 or of order 0 ends in an
\* error, no link is in the graph and no cell of the square is written.
C7_Order2And0Rejected ==
    (source.n \in {0, 2} /\ pc # "idle") =>
        /\ pc = "error" /\ err = "ValueError"
        /\ green = EmptyMap /\ purple = EmptyMap
        /\ matrix = EmptyMap /\ n = 0

C7_Witness == pc = "error" /\ err = "ValueError" /\ source = Order2

\* the owner's last call was link_green / link_purple with these arguments
LinkCalled(name) == call.op = name /\ calls > 0

\* C8: link_green / link_purple called with a source that is no source
\* node, a target that is no target node, or a source equal to the
\* complement of the target raises ValueError and leaves both maps as they
\* were, also when the source or the target held a link of that colour.
C8_InvalidLinkLeavesGraph ==
    (/\ LinkCalled("link_green") \/ LinkCalled("link_purple")
     /\ \/ ~is_source_node(source.n, call.a)
        \/ ~is_target_node(source.n, call.b)
        \/ call.a = complement(source.n, call.b)) =>
        /\ err = "ValueError"
        /\ green = before.green
        /\ purple = before.purple

\* a zero-slope link_green on a source that holds a green link
C8_Witness ==
    /\ LinkCalled("link_green")
    /\ call.a = complement(source.n, call.b)
    /\ call.a \in DOMAIN before.green
    /\ err = "ValueError"

\* every entry of the map is one half of a normal link: the partner is not
\* the complement and resolves back
NormalOnly(k, f) ==
    \A x \in DOMAIN f :
        /\ f[x] # complement(k, x)
        /\ f[x] \in DOMAIN f
        /\ f[f[x]] = x

\* s and t resolve to each other in new, and no former partner of s or of t
\* in old holds an entry in new
Relinked(old, new, s, t) ==
    /\ s \in DOMAIN new /\ new[s] = t
    /\ t \in DOMAIN new /\ new[t] = s
    /\ \A x \in DOMAIN old \ {s, t} :
          (old[x] \in {s, t}) => x \notin DOMAIN new

\* C9: after a successful normal link of a colour on a graph that holds
\* only normal links, s and t resolve to each other under that colour, the
\* former partners of s and of t hold no link of that colour, and the map
\* of the other colour is unchanged.
C9_Relink ==
    (/\ err = "none"
     /\ NormalOnly(source.n, before.green)
     /\ NormalOnly(source.n, before.purple)) =>
        /\ LinkCalled("link_green") =>
              /\ Relinked(before.green, green, call.a, call.b)
              /\ purple = before.purple
        /\ LinkCalled("link_purple") =>
              /\ Relinked(before.purple, purple, call.a, call.b)
              /\ green = before.green

\* a green link on a source that was linked to another target
C9_Witness ==
    /\ LinkCalled("link_green") /\ err = "none"
    /\ NormalOnly(source.n, before.green)
    /\ NormalOnly(source.n, before.purple)
    /\ call.a \in DOMAIN before.green
    /\ before.green[call.a] # call.b
    /\ before.green[call.a] \notin DOMAIN green

\* the number of links of the map f that the node x is an endpoint of
Degree(f, x) == Cardinality({l \in Links(f) : x \in l})

\* C10: in every graph state reached by link, unlink and complementary-link
\* calls each node is an endpoint of at most one green link and of at most
\* one purple link.
C10_AtMostOneLinkPerColour ==
    /\ \A x \in DOMAIN green \cup Range(green) : Degree(green, x) <= 1
    /\ \A x \in DOMAIN purple \cup Range(purple) : Degree(purple, x) <= 1

\* the owner's last call was unlink_green / unlink_purple
UnlinkCalled(name) == call.op = name /\ calls > 0

\* the outcome of an unlink on the map old that the claim C11 describes: a
\* node with an entry loses it and so does its partner, a node without an
\* entry leaves the map as it was
Unlinked(old, new, node) ==
    IF node \in DOMAIN old
    THEN /\ node \notin DOMAIN new
         /\ old[node] \notin DOMAIN new
    ELSE new = old

\* C11: unlink_green / unlink_purple on a node that holds a link of that
\* colour removes the entry of the node and the entry of its partner; on a
\* node that holds none it raises no error and leaves the graph unchanged.
C11_UnlinkTotal ==
    /\ UnlinkCalled("unlink_green") =>
          /\ err = "none"
          /\ Unlinked(before.green, green, call.a)
          /\ purple = before.purple
    /\ UnlinkCalled("unlink_purple") =>
          /\ err = "none"
          /\ Unlinked(before.purple, purple, call.a)
          /\ green = before.green

\* the sides a label of 1..2n+2 is resolved to by the two maps
OnTop(x) == complement(source.n, x) \in DOMAIN green
OnBottom(x) == x \in DOMAIN green
OnLeft(x) == complement(source.n, x) \in DOMAIN purple
OnRight(x) == x \in DOMAIN purple
LowLabels == 1..(2 * source.n + 2)

\* the candidates of corner c (0 top-left, 1 top-right, 2 bottom-right,
\* 3 bottom-left): the low labels resolved to its row and its column, and
\* the complements of those resolved to the opposite corner; the top takes
\* precedence over the bottom and the left over the right
Candidates(c) ==
    LET tl == {x \in LowLabels : OnTop(x) /\ OnLeft(x)}
        tr == {x \in LowLabels : OnTop(x) /\ ~OnLeft(x) /\ OnRight(x)}
        bl == {x \in LowLabels : ~OnTop(x) /\ OnBottom(x) /\ OnLeft(x)}
        br == {x \in LowLabels :
                  ~OnTop(x) /\ OnBottom(x) /\ ~OnLeft(x) /\ OnRight(x)}
        partners(xs) == {complement(source.n, x) : x \in xs}
    IN  CASE c = 0 -> tl \cup partners(br)
          [] c = 1 -> tr \cup partners(bl)
          [] c = 2 -> br \cup partners(tl)
          [] c = 3 -> bl \cup partners(tr)

Unresolved ==
    {x \in LowLabels : ~OnTop(x) /\ ~OnBottom(x) /\ ~OnLeft(x) /\ ~OnRight(x)}

StatusBits ==
    LET bit(c) == IF Cardinality(Candidates(c)) # 1 THEN 2^c ELSE 0
    IN  bit(0) + bit(1) + bit(2) + bit(3)
          + (IF Unresolved # {} THEN 16 ELSE 0)

\* C12: the status of the classification is the sum of 2^k over the corners
\* k whose number of candidates differs from 1, plus 16 when a label of
\* 1..2n+2 is resolved to no side; it is 0 exactly when no corner and no
\* label is flagged; and the classification changes neither colour map.
C12_StatusBits ==
    /\ [](pc = "classified" =>
            /\ status = StatusBits
            /\ status = 0 <=>
                  /\ \A c \in 0..3 : Cardinality(Candidates(c)) = 1
                  /\ Unresolved = {})
    /\ [][(pc' = "classified" /\ pc # "classified") =>
             (green' = green /\ purple' = purple)]_vars

\* a corner with two candidates, no label unresolved
C12_Witness ==
    /\ pc = "classified" /\ call.op = "framing"
    /\ \E c \in 0..3 : Cardinality(Candidates(c)) = 2
    /\ status \in 1..15

\* C13: when the classification yields a nonzero status, framing() returns
\* the status and raises nothing, and no cell of the square is written: the
\* square is the one the construction left.
C13_StatusReturned ==
    (status # None /\ status # 0) =>
        /\ pc # "error"
        /\ err # "NameError"
        /\ matrix \in {configure(source), Unrandomized(source)}

\* C14: framing() checks the finished square, so that a construction whose
\* finished square is not magic raises instead of returning a square: every
\* square returned by the construction with the default algorithm is magic.
C14_ReturnedSquareIsMagic ==
    (pc = "framed" /\ algorithm = 0) => check(matrix, n)

\* the cells of the outer ring of a square of the given order
Border(order) ==
    {p \in Cells(order) : p[1] \in {0, order-1} \/ p[2] \in {0, order-1}}

\* C15: the construction with an algorithm id that is not in the dispatch
\* table (on a picture whose order the bundle accepts) raises no error and
\* issues no link; the interior of the square is the picture shifted by
\* 2n+2 and its 4n+4 border cells are all 0.
C15_UnknownAlgorithm ==
    (algorithm \notin DISPATCH_TABLE /\ pc # "idle" /\ validate(source.n)) =>
        /\ pc = "plain" => err = "none"
        /\ pc \in {"plain", "checked", "error"}
        /\ pc = "error" => err = "Warning" /\ magic # None
        /\ green = EmptyMap /\ purple = EmptyMap
        /\ n = source.n + 2
        /\ Cardinality(Border(n)) = 4 * source.n + 4
        /\ \A p \in Border(n) : matrix[p] = 0
        /\ \A i, j \in 0..source.n-1 :
              matrix[<<i+1, j+1>>] = source.matrix[<<i, j>>] + 2 * source.n + 2

C15_Witness ==
    /\ pc = "plain" /\ algorithm = 1 /\ err = "none"
    /\ source = Melencolia1514
    /\ matrix[<<1, 1>>] = 26 /\ matrix[<<0, 0>>] = 0 /\ matrix[<<5, 3>>] = 0

\* C16: the order-4 rule consults no random choice and leaves six links in
\* the graph, three green and three purple, each link it made still in
\* place; the 6x6 square is the same with and without randomize, and for
\* Melencolia I its magic constant is 111.
C16_Order4Forced ==
    /\ (pc = "linked" /\ source.n = 4) =>
          /\ rng = 0
          /\ Cardinality(Links(green)) = 3
          /\ Cardinality(Links(purple)) = 3
          /\ green[6] = 36 /\ green[3] = 33 /\ green[5] = 28
          /\ purple[2] = 36 /\ purple[7] = 31 /\ purple[8] = 27
          /\ NormalOnly(source.n, green) /\ NormalOnly(source.n, purple)
    /\ (Framed /\ source.n = 4) =>
          /\ rng = 0
          /\ matrix = Unrandomized(source)
          /\ source = Melencolia1514 =>
                /\ check(matrix, n)
                /\ row_sum(matrix, n, 0) = 111

C16_Witness ==
    /\ pc = "framed" /\ algorithm = 0 /\ randomize /\ rng = 0
    /\ source = Melencolia1514
    /\ magic = 111
    /\ [j \in 1..6 |-> matrix[<<0, j-1>>]] = <<1, 34, 4, 32, 9, 31>>

\* sg, written as a list, a cycle or a dict, is a permutation of 1..m
IsPermutation(kind, sg, m) ==
    CASE kind = "list" ->
            /\ Len(sg) = m
            /\ \A k \in 1..m : \E i \in 1..m : sg[i] = k
      [] kind = "tuple" ->
            /\ \A i \in 1..Len(sg) : sg[i] \in 1..m
            /\ \A i, j \in 1..Len(sg) : sg[i] = sg[j] => i = j
      [] kind = "dict" ->
            /\ DOMAIN sg \subseteq 1..m
            /\ \A x \in DOMAIN sg : sg[x] \in DOMAIN sg
            /\ \A x, y \in DOMAIN sg : sg[x] = sg[y] => x = y

\* the image of k under the permutation sg
Image(kind, sg, k) ==
    CASE kind = "list" -> sg[k]
      [] kind = "tuple" ->
            IF \E i \in 1..Len(sg) : sg[i] = k
            THEN LET i == CHOOSE j \in 1..Len(sg) : sg[j] = k
                 IN  sg[(i % Len(sg)) + 1]
            ELSE k
      [] kind = "dict" -> IF k \in DOMAIN sg THEN sg[k] ELSE k

PermutationCalled ==
    /\ calls' = calls + 1
    /\ call'.op \in {"vertical_permutation", "horizontal_permutation"}

\* C17: on a magic framed square of order N, vertical_permutation(sigma)
\* with a permutation sigma of 1..N-2 (list, cycle or dict) moves the pair
\* (left[k], right[k]) to row sigma[k], horizontal_permutation(sigma) moves
\* the pair (top[k], bottom[k]) to column sigma[k]; every other cell, the
\* corners and the interior included, keeps its value, and the square
\* passes the magic check with the magic constant it had.
C17_PermutationKeepsMagic ==
    [][(/\ PermutationCalled
        /\ check(matrix, n)
        /\ IsPermutation(call'.b, call'.a, n - 2)) =>
           LET name == call'.op
               to(k) == Image(call'.b, call'.a, k)
               moved == {TierCells(name, n, k)[t] : k \in 1..n-2, t \in 1..2}
           IN  /\ err' = "none"
               /\ \A k \in 1..n-2, t \in 1..2 :
                     matrix'[TierCells(name, n, to(k))[t]]
                         = matrix[TierCells(name, n, k)[t]]
               /\ \A p \in Cells(n) \ moved : matrix'[p] = matrix[p]
               /\ check(matrix', n)
               /\ magic' = row_sum(matrix, n, 0)
               /\ row_sum(matrix', n, 0) = row_sum(matrix, n, 0)]_vars

\* the Lo Shu square framed, after vertical_permutation((1, 2, 3))
C17_Witness ==
    /\ pc = "permuted" /\ calls = 1 /\ err = "none"
    /\ call.op = "vertical_permutation" /\ call.b = "tuple"
    /\ call.a = <<1, 2, 3>>
    /\ [i \in 1..5 |-> matrix[<<i-1, 0>>]] = <<4, 8, 24, 23, 6>>
    /\ [i \in 1..5 |-> matrix[<<i-1, 4>>]] = <<20, 18, 2, 3, 22>>
    /\ magic = 65

\* opposite cells of the frame of the square mx sum to order^2+1
OppositeComplementary(mx, order) ==
    /\ \A i \in 1..order-2 :
          /\ mx[<<0, i>>] + mx[<<order-1, i>>] = order * order + 1
          /\ mx[<<i, 0>>] + mx[<<i, order-1>>] = order * order + 1
    /\ mx[<<0, 0>>] + mx[<<order-1, order-1>>] = order * order + 1
    /\ mx[<<0, order-1>>] + mx[<<order-1, 0>>] = order * order + 1

\* C18: for a magic square of odd order n with the entries 1..n^2,
\* alBuzjaniBorder returns a square of order n+2 that passes the magic
\* check with the magic constant (n+2)((n+2)^2+1)/2, has the entries
\* 1..(n+2)^2 and complementary opposite frame cells, and meets the
\* requirements of alBuzjaniBorder itself.
C18_BuzjaniBorderIsMagic ==
    (pc # "idle" /\ source.n % 2 = 1 /\ TraditionalPicture) =>
        /\ pc = "bordered" /\ err = "none"
        /\ n = source.n + 2
        /\ check(matrix, n)
        /\ magic = MagicConstant(n)
        /\ IsNormal(matrix, n)
        /\ OppositeComplementary(matrix, n)
        /\ \A i, j \in 0..source.n-1 :
              matrix[<<i+1, j+1>>] = source.matrix[<<i, j>>] + 2 * source.n + 2
        /\ buzjani_ok([n |-> n, matrix |-> matrix])

\* the border of the bordered Lo Shu square, rotated once
C18_Witness ==
    /\ pc = "bordered" /\ source.n = 5
    /\ [j \in 1..5 |-> source.matrix[<<0, j-1>>]] = <<6, 7, 5, 25, 22>>
    /\ [j \in 1..7 |-> matrix[<<0, j-1>>]] = <<6, 48, 46, 45, 10, 12, 8>>
    /\ [j \in 1..7 |-> matrix[<<1, j-1>>]] = <<39, 18, 19, 17, 37, 34, 11>>
    /\ [i \in 1..7 |-> matrix[<<i-1, 0>>]] = <<6, 39, 41, 43, 3, 1, 42>>

\* C19: for a traditional magic square of order n, alAntakiEvenlyEven
\* (n % 4 = 2) and alAntakiOddlyEven (n % 4 = 0) return a magic square of
\* order n+2 with the magic number (n+2)((n+2)^2+1)/2 in which opposite
\* numbers of the frame sum to (n+2)^2+1; the result is a traditional
\* square that the other constructor accepts, as in the chain that starts
\* at Melencolia I.
C19_AntakiFramesAreMagic ==
    (/\ pc # "idle" /\ TraditionalPicture
     /\ \/ call.op = "alAntakiEvenlyEven" /\ source.n % 4 = 2
        \/ call.op = "alAntakiOddlyEven" /\ source.n % 4 = 0) =>
        /\ pc = "bordered" /\ err = "none"
        /\ n = source.n + 2
        /\ check(matrix, n)
        /\ magic = MagicConstant(n)
        /\ IsNormal(matrix, n)
        /\ OppositeComplementary(matrix, n)
        /\ \A i, j \in 0..source.n-1 :
              matrix[<<i+1, j+1>>] = source.matrix[<<i, j>>] + 2 * source.n + 2
        /\ IF n % 4 = 0 THEN oddly_even_ok([n |-> n, matrix |-> matrix])
                        ELSE evenly_even_ok([n |-> n, matrix |-> matrix])

\* the square of order 14 of the chain that starts at Melencolia I
C19_Witness ==
    /\ pc = "bordered" /\ call.op = "alAntakiOddlyEven" /\ source.n = 12
    /\ [j \in 1..14 |-> matrix[<<0, j-1>>]]
          = <<13, 196, 2, 194, 5, 190, 9, 186, 180, 19, 176, 23, 172, 14>>
    /\ [i \in 1..14 |-> matrix[<<i-1, 0>>]]
          = <<13, 193, 6, 189, 10, 185, 15, 16, 179, 20, 175, 24, 171, 183>>
    /\ [j \in 1..12 |-> source.matrix[<<0, j-1>>]]
          = <<11, 1, 143, 142, 4, 5, 6, 138, 137, 136, 135, 12>>

\* C20: the odd rule, for either coin outcome: label n+1 is the top left
\* corner and label n+3 the bottom left corner; label n is no corner and
\* lies in the middle cell of the right column, label n+2 is no corner and
\* lies in the middle cell of the bottom row, and their complements lie in
\* the middle of the left column and of the top row.
C20_OddRuleFixedLabels ==
    LET k == source.n
        mid == (n - 1) \div 2
    IN  /\ (pc = "classified" /\ k % 2 = 1) =>
              /\ corners[0] = <<k + 1>>
              /\ corners[3] = <<k + 3>>
              /\ \A c \in 0..3 : k \notin Range(corners[c])
                                 /\ k + 2 \notin Range(corners[c])
              /\ k \in Range(frame.right)
              /\ k + 2 \in Range(frame.bottom)
        /\ (Framed /\ k % 2 = 1) =>
              /\ matrix[<<0, 0>>] = k + 1
              /\ matrix[<<n-1, 0>>] = k + 3
              /\ matrix[<<mid, n-1>>] = k
              /\ matrix[<<n-1, mid>>] = k + 2
              /\ matrix[<<mid, 0>>] = complement(k, k)
              /\ matrix[<<0, mid>>] = complement(k, k + 2)

\* the order-7 picture framed after a flip of tails
C20_Witness ==
    /\ pc = "framed" /\ algorithm = 0 /\ randomize /\ rng = 1
    /\ source.n = 7
    /\ 1 \in DOMAIN purple
    /\ matrix[<<4, 8>>] = 7 /\ matrix[<<8, 4>>] = 9
    /\ matrix[<<0, 0>>] = 8 /\ matrix[<<8, 0>>] = 10

\* C21: the even rules, for every shuffle outcome: for a picture order
\* n > 4 the top left corner of the frame is label n+1 and the bottom left
\* corner is label n+2, the top right and the bottom right corners being the
\* complements of n+2 and of n+1; for n = 4 the top left corner is 1 and the
\* bottom left corner is 6.
C21_EvenRuleCorners ==
    LET k == source.n
        tl == IF k = 4 THEN 1 ELSE k + 1
        bl == IF k = 4 THEN 6 ELSE k + 2
    IN  /\ (pc = "classified" /\ k % 2 = 0 /\ k >= 4) =>
              /\ corners[0] = <<tl>>
              /\ corners[3] = <<bl>>
              /\ corners[1] = <<complement(k, bl)>>
              /\ corners[2] = <<complement(k, tl)>>
        /\ (Framed /\ k % 2 = 0 /\ k >= 4) =>
              /\ matrix[<<0, 0>>] = tl
              /\ matrix[<<n-1, 0>>] = bl
              /\ matrix[<<0, n-1>>] = complement(k, bl)
              /\ matrix[<<n-1, n-1>>] = complement(k, tl)

\* the order-8 picture framed after a shuffle that moved node 13 to the last
\* place of the second list, where it ascends
C21_Witness ==
    /\ pc = "framed" /\ algorithm = 0 /\ randomize /\ rng = 2
    /\ source.n = 8
    /\ 14 \in DOMAIN purple
    /\ matrix[<<0, 0>>] = 9 /\ matrix[<<9, 0>>] = 10
    /\ matrix[<<0, 9>>] = 91 /\ matrix[<<9, 9>>] = 92

\* the four tiers the odd rule yields for picture order k when my_random()
\* returns heads
OddFrame(k, heads) ==
    LET b == run(k, [green |-> EmptyMap, purple |-> EmptyMap, err |-> "none"],
                 frame0_odd(k, heads))
    IN  framing_tiers(framing_frame(k, b.green, b.purple),
                      framing_corners(k, b.green, b.purple))

\* the construction has classified the links of the randomized odd rule
OddRandomized ==
    /\ pc = "classified" /\ call.op # "framing"
    /\ algorithm = 0 /\ randomize /\ source.n % 2 = 1

\* the frame is that of one of the two outcomes of the single random draw
OneOfTwoFrames ==
    /\ rng = 1
    /\ framing_tiers(frame, corners) \in
          {OddFrame(source.n, my_random(TRUE, coin)) : coin \in {0, 1}}

BorderTiers ==
    [top    |-> {<<0, j>> : j \in 0..n-1},
     bottom |-> {<<n-1, j>> : j \in 0..n-1},
     left   |-> {<<i, 0>> : i \in 0..n-1},
     right  |-> {<<i, n-1>> : i \in 0..n-1}]

\* the numbers of low labels and of complements of low labels in a set of cells
LowCount(cells) == Cardinality({p \in cells : matrix[p] \in LowLabels})
HighCount(cells) ==
    Cardinality({p \in cells :
                    complement(source.n, matrix[p]) \in LowLabels})

\* C23: for every even picture order n >= 4 and every shuffle outcome, each
\* of the four border tiers of the committed frame, corners included, holds
\* exactly (n+2)/2 low labels (1..2n+2) and exactly (n+2)/2 complements.
C23_TiersBalanced ==
    (Framed /\ source.n % 2 = 0 /\ source.n >= 4) =>
        \A t \in DOMAIN BorderTiers :
            /\ LowCount(BorderTiers[t]) = (source.n + 2) \div 2
            /\ HighCount(BorderTiers[t]) = (source.n + 2) \div 2

\* the order-10 picture framed after a shuffle that made node 19 descend
C23_Witness ==
    /\ pc = "framed" /\ algorithm = 0 /\ randomize /\ rng = 2
    /\ source.n = 10
    /\ 19 \in DOMAIN purple
    /\ LowCount(BorderTiers.left) = 6
    /\ HighCount(BorderTiers.right) = 6

\* a slope sum was read and the maps are those it was read from
SumRead(name) == call.op = name /\ pc \in {"plain", "framed"}

\* C24: in any state of the bundle, green_sum returns the sum of the slopes
\* of the green links and purple_sum the sum of the slopes of the purple
\* links, a normal link {s, t} counted once as s - complement(t) and a
\* complementary link on s as (s - complement(s))/2.
C24_SlopeSumsRead ==
    /\ SumRead("green_sum") =>
          err = "none" /\ call.a = SlopeSum2(source.n, green)
    /\ SumRead("purple_sum") =>
          err = "none" /\ call.a = SlopeSum2(source.n, purple)

\* the two maps are those the calls ops leave on an empty bundle
LinkedBy(ops) ==
    LET b == run(source.n, [green |-> EmptyMap, purple |-> EmptyMap,
                            err |-> "none"], ops)
    IN  b.err = "none" /\ green = b.green /\ purple = b.purple

\* the links are those of the unrandomized rule for orders divisible by 4
ByEvenlyEven ==
    LinkedBy(frame0_evenly_even(source.n, Range2(1, source.n - 2),
                                Range2(source.n + 5, 2 * source.n + 2)))

\* the links are those of the unrandomized rule for orders 2 modulo 4
ByOddlyEven ==
    LinkedBy(frame0_oddly_even(source.n, Range2(1, source.n),
                               Range2(source.n + 9, 2 * source.n + 2)))

\* a square of the chain from Melencolia1514 built without randomisation
ChainSquare(k) == Framed /\ ~randomize /\ source.n = k

\* no square of the chain fails square.check()
ChainChecks ==
    /\ \A k \in {4, 6, 8} : ChainSquare(k) => n = k + 2 /\ check(matrix, n)
    /\ (algorithm = 0 /\ ~randomize /\ source.n \in {4, 6, 8}) => err = "none"

\* C25 as stated: the order-6 result is framed into order 8 by the
\* evenly-even rule and that square into order 10 by the oddly-even rule,
\* and every square of the chain passes the magic check.
C25_ChainRulesAsStated ==
    /\ ChainSquare(6) => ByEvenlyEven
    /\ ChainSquare(8) => ByOddlyEven
    /\ ChainChecks

\* C25, amended: the rule is chosen by the order of the picture: the order-6
\* result is framed into order 8 by the oddly-even rule (6 % 4 = 2) and that
\* square into order 10 by the evenly-even rule (8 % 4 = 0), and every
\* square of the chain passes the magic check.
C25_ChainRules ==
    /\ ChainSquare(6) => ByOddlyEven /\ ~ByEvenlyEven
    /\ ChainSquare(8) => ByEvenlyEven /\ ~ByOddlyEven
    /\ ChainChecks

\* the order-10 square of the chain, checked; its picture is the order-8
\* square of the chain
C25_Witness ==
    /\ pc = "checked" /\ ChainSquare(8) /\ ByEvenlyEven
    /\ [j \in 1..8 |-> source.matrix[<<0, j-1>>]]
          = <<7, 1, 63, 62, 4, 60, 6, 57>>
    /\ [j \in 1..10 |-> matrix[<<0, j-1>>]]
          = <<9, 1, 99, 3, 97, 5, 95, 94, 11, 91>>
    /\ [i \in 1..10 |-> matrix[<<i-1, 0>>]]
          = <<9, 93, 89, 88, 14, 86, 16, 17, 83, 10>>

\* every border cell of the enlarged square holds the 0 of configure_frame
BorderBlank == \A p \in Border(n) : matrix[p] = 0

\* C26: one framing attempt is a single pass empty -> linked -> classified
\* -> committed or rejected: the links of the rule set are made on an empty
\* bundle before the classification is read, the classification is read
\* once, the tier cells are overwritten with labels only after a status of
\* 0, and no link or unlink operation is applied after the classification.
C26_SinglePass ==
    /\ [](pc = "configured" =>
             green = EmptyMap /\ purple = EmptyMap /\ status = None
             /\ BorderBlank)
    /\ [](pc = "linked" =>
             green # EmptyMap /\ status = None /\ BorderBlank)
    /\ [][/\ pc' = "linked" => pc = "configured"
          /\ (pc' = "classified" /\ call'.op # "framing") => pc = "linked"
          /\ pc = "classified" =>
                /\ pc' \in {"framed", "reframed", "error"}
                /\ green' = green /\ purple' = purple
                /\ <<status, frame, corners>>' = <<status, frame, corners>>
                /\ status # 0 => matrix' = matrix /\ pc' = "error"
          /\ (matrix' # matrix /\ pc # "idle") =>
                pc = "classified" /\ status = 0]_vars

\* the Lo Shu square committed by the construction on the picture of order 1
C26_Witness ==
    /\ pc = "framed" /\ call = NoCall /\ status = 0 /\ source = Siamese1
    /\ green # EmptyMap /\ purple # EmptyMap
    /\ [p \in Cells(3) |-> matrix[p]] =
          from_sq(<< <<2, 7, 6>>, <<9, 5, 1>>, <<4, 3, 8>> >>).matrix

\* FramedMagicSquare(picture, magic_zero, debug) was called on a picture
\* that is a magic square and passed the assertion on picture.magic
PictureAccepted ==
    /\ call.op = "FramedMagicSquare"
    /\ check(source.matrix, source.n)
    /\ err # "AssertionError"

\* the constructor returned, or raised the Warning of its own check()
FramedReturned == pc \in {"mounted", "checked"}

Committed == pc \in {"framed", "reframed"} /\ status = 0

\* C28: when framing commits a frame, the four tiers agree on the corner
\* cells they share: (0,0) gets the same value from the top and the left
\* tier, (0,n+1) from the top and the right, (n+1,n+1) from the bottom and
\* the right, (n+1,0) from the bottom and the left, so that the content of
\* a corner does not depend on the order of the four writes.
C28_TiersAgreeOnCorners ==
    Committed =>
        LET t == framing_tiers(frame, corners)
        IN  /\ \A side \in DOMAIN t : Len(t[side]) = n
            /\ t.top[1] = t.left[1] /\ matrix[<<0, 0>>] = t.top[1]
            /\ t.top[n] = t.right[1] /\ matrix[<<0, n-1>>] = t.top[n]
            /\ t.bottom[n] = t.right[n] /\ matrix[<<n-1, n-1>>] = t.bottom[n]
            /\ t.bottom[1] = t.left[n] /\ matrix[<<n-1, 0>>] = t.bottom[1]

\* a frame committed by a call of framing() after the owner changed a link
C28_Witness ==
    /\ pc = "reframed" /\ status = 0 /\ calls = 2
    /\ call.op = "framing"
    /\ corners = [c \in 0..3 |-> << <<9>>, <<8>>, <<1>>, <<2>> >>[c + 1]]
    /\ [p \in Cells(3) |-> matrix[p]] =
          from_sq(<< <<9, 3, 8>>, <<4, 5, 6>>, <<2, 7, 1>> >>).matrix

\* C29: in every graph state reachable by link, unlink and complementary
\* link calls on a bundle of order n, a status of 0 guarantees that each of
\* the four side lists holds exactly n labels, so that each tier has n+2
\* entries and the commit loop never reads past the end of a list.
C29_StatusZeroGivesFullTiers ==
    /\ (pc = "classified" /\ status = 0) =>
          \A side \in DOMAIN frame : Len(frame[side]) = source.n
    /\ err # "IndexError"

\* C30: in every graph state reachable by link_green, link_purple,
\* unlink_green, unlink_purple, clink_green and clink_purple calls, the
\* assertion s == t of green_sum and purple_sum holds: reading a slope sum
\* never fails.
C30_SumAssertionHolds ==
    call.op \in {"green_sum", "purple_sum"} => err # "AssertionError"

====
